---- MODULE Spec2Model ----
(***************************************************************************)
(* The Exodus II and YTData frontends of yt: the validity probes and the   *)
(* parameter-file parsers of                                               *)
(*   yt/frontends/exodus_ii/data_structures.py  (ExodusIIDataset)          *)
(*   yt/frontends/ytdata/data_structures.py     (YTDataContainerDataset,   *)
(*                                               YTGridDataset)            *)
(* A candidate file is fixed by Init; a probe (_is_valid) runs on it, and  *)
(* when the probe accepts the file the dataset is constructed and          *)
(* _parse_parameter_file runs, one statement per step.  A Python           *)
(* dictionary is a function on its keys; an exception that leaves          *)
(* _parse_parameter_file ends the run in pc = "failed" with its name in    *)
(* exc.  Floating-point values are stood for by integers.                  *)
(***************************************************************************)
EXTENDS Integers, Sequences, FiniteSets, TLC

VARIABLES
    file,        \* the candidate file on disk
    adapter,     \* the dataset class at work: "exodus", "container" or "grid"
    pc,          \* the statement about to run
    valid,       \* what _is_valid returned
    exc,         \* the exception that reached the caller, or "none"
    handles,     \* the file handles that are open
    parameters,  \* self.parameters
    hvals,       \* the local hvals of YTDataContainerDataset._parse_parameter_file
    ds           \* the attributes set on the dataset object

vars == <<file, adapter, pc, valid, exc, handles, parameters, hvals, ds>>

(***************************************************************************)
(* Bounds of the model.                                                    *)
(***************************************************************************)
NumNodes == 3
NumSteps == 2
MaxMeshes == 2
MaxNames == 2
NumElems == 2
NodesPerElem == 2
NumCoordSets == 3
NumConnSets == 2

(***************************************************************************)
(* Python dictionaries and indexing.                                       *)
(***************************************************************************)
EmptyDict == [k \in {} |-> 0]

\* d[k] = v
Put(d, k, v) == [y \in DOMAIN d \cup {k} |-> IF y = k THEN v ELSE d[y]]

\* d.update(e)
Update(d, e) == [y \in DOMAIN d \cup DOMAIN e |-> IF y \in DOMAIN e THEN e[y] ELSE d[y]]

\* The position in a 1-based sequence of length n that Python's index i
\* (0-based, negative counting from the end) selects; 0 when out of range.
PyPos(i, n) ==
    IF i >= 0 /\ i < n THEN i + 1
    ELSE IF i < 0 /\ i >= -n THEN n + i + 1
    ELSE 0

\* array.transpose() of a two-dimensional array
Transpose(a) ==
    LET cols == IF Len(a) = 0 THEN 0 ELSE Len(a[1])
    IN [c \in 1..cols |-> [r \in 1..Len(a) |-> a[r][c]]]

RECURSIVE SeqMin(_)
SeqMin(s) ==
    IF Len(s) = 1 THEN s[1]
    ELSE LET m == SeqMin(Tail(s)) IN IF s[1] < m THEN s[1] ELSE m

RECURSIVE SeqMax(_)
SeqMax(s) ==
    IF Len(s) = 1 THEN s[1]
    ELSE LET m == SeqMax(Tail(s)) IN IF s[1] > m THEN s[1] ELSE m

(***************************************************************************)
(* Names of the variables of an Exodus II file.                            *)
(***************************************************************************)
ConnectKey(i) == "connect" \o ToString(i)
ElemVarKey(j, i) == "vals_elem_var" \o ToString(j) \o "eb" \o ToString(i)
NodVarKey(j) == "vals_nod_var" \o ToString(j)
AxisName(a) == <<"x", "y", "z">>[a]
CoordKey(a) == "coord" \o AxisName(a)

\* The NUL byte that pads a fixed-width name row.
Pad == "^@"

(***************************************************************************)
(* The candidate files.  An Exodus II file is described by which of its    *)
(* variables are present and how long they are (p), with contents fixed by *)
(* the position of each entry so that distinct entries hold distinct       *)
(* values.  Node ids stored in connect<i> are 1-based, 1..NumNodes, as the *)
(* format prescribes.                                                      *)
(***************************************************************************)
Steps(p) == IF p.time = 0 THEN 0 ELSE NumSteps

ConnTable(p, i) ==
    [e \in 1..NumElems |->
        [k \in 1..NodesPerElem |-> ((p.connSet + i + e * k) % NumNodes) + 1]]

CoordValue(p, a, n) == ((p.coordSet * n + a * a + p.coordSet) % 7) - 3

NodValue(j, t, n) == 100 * j + 10 * t + n
ElemValue(j, i, t, e) == 1000 * j + 100 * i + 10 * t + e
GloValue(t, g) == 5000 + 10 * t + g
TimeValue(t) == 10 * t

RawName(letter, j) == <<letter, ToString(j), Pad, Pad>>

NameRows(letter, count) == [j \in 1..count |-> RawName(letter, j)]

ExodusVariables(p) ==
    LET conn == [k \in {ConnectKey(i) : i \in 1..p.nConn} |->
                    ConnTable(p, CHOOSE i \in 1..p.nConn : ConnectKey(i) = k)]
        eb == IF p.eb < 0 THEN EmptyDict
              ELSE "eb_status" :> [i \in 1..p.eb |-> 1]
        cn == IF p.coorNames < 0 THEN EmptyDict
              ELSE "coor_names" :> [a \in 1..p.coorNames |-> <<AxisName(a), Pad>>]
        co == IF p.coordKind = "coord"
              THEN "coord" :> [a \in 1..p.axes |->
                                  [n \in 1..NumNodes |-> CoordValue(p, a, n)]]
              ELSE [k \in {CoordKey(a) : a \in 1..p.axes} |->
                      LET a == CHOOSE a \in 1..p.axes : CoordKey(a) = k
                      IN [n \in 1..NumNodes |-> CoordValue(p, a, n)]]
        tw == IF p.time < 0 THEN EmptyDict
              ELSE "time_whole" :> [t \in 1..p.time |-> TimeValue(t)]
        en == IF p.elem < 0 THEN EmptyDict
              ELSE "name_elem_var" :> NameRows("e", p.elem)
        nn == IF p.nod < 0 THEN EmptyDict
              ELSE "name_nod_var" :> NameRows("n", p.nod)
        gn == IF p.glo < 0 THEN EmptyDict
              ELSE ("name_glo_var" :> NameRows("g", p.glo))
                   @@ ("vals_glo_var" :>
                         [t \in 1..Steps(p) |-> [g \in 1..p.glo |-> GloValue(t, g)]])
        ev == [k \in {ElemVarKey(j, i) : j \in 1..p.elem, i \in 1..p.nConn} |->
                  LET ji == CHOOSE ji \in (1..p.elem) \X (1..p.nConn) :
                                ElemVarKey(ji[1], ji[2]) = k
                  IN [t \in 1..Steps(p) |->
                        [e \in 1..NumElems |-> ElemValue(ji[1], ji[2], t, e)]]]
        nv == [k \in {NodVarKey(j) : j \in 1..p.nod} |->
                  LET j == CHOOSE j \in 1..p.nod : NodVarKey(j) = k
                  IN [t \in 1..Steps(p) |->
                        [n \in 1..NumNodes |-> NodValue(j, t, n)]]]
        ir == IF p.info = "absent" THEN EmptyDict
              ELSE "info_records" :> p.info
    IN conn @@ eb @@ cn @@ co @@ tw @@ en @@ nn @@ gn @@ ev @@ nv @@ ir

ExodusFile(p) ==
    [kind |-> "netcdf", path |-> "mesh.e", suffix |-> ".e", ctime |-> 0,
     variables |-> ExodusVariables(p), attrs |-> EmptyDict, groups |-> <<>>]

\* Files that differ in which structural variables they hold.
StructParams ==
    [nConn : 0..MaxMeshes, eb : -1..MaxMeshes, coorNames : {-1, 1, 2, 3},
     coordKind : {"coord", "separate"}, axes : 1..3, time : {NumSteps},
     elem : {-1}, nod : {-1}, glo : {-1}, info : {"stamped"},
     coordSet : {1}, connSet : {1}]

\* Well-formed meshes that differ in their optional metadata.
MetaParams ==
    [nConn : {1}, eb : {1}, coorNames : {3}, coordKind : {"coord"}, axes : {3},
     time : {-1, 0, NumSteps}, elem : -1..MaxNames, nod : -1..MaxNames,
     glo : -1..MaxNames, info : {"absent", "stamped", "unstamped", "malformed"},
     coordSet : {1}, connSet : {1}]

\* Well-formed meshes that differ in their contents.
ContentParams ==
    {p \in [nConn : 1..MaxMeshes, eb : 1..MaxMeshes, coorNames : {2, 3},
            coordKind : {"coord", "separate"}, axes : {2, 3}, time : {NumSteps},
            elem : 0..MaxNames, nod : 0..MaxNames, glo : {-1}, info : {"stamped"},
            coordSet : 1..NumCoordSets, connSet : 1..NumConnSets] :
        p.nConn = p.eb /\ p.coorNames = p.axes}

\* The synthetic minimal mesh: coord, connect1 and an eb_status of length 1.
MinimalParams ==
    [nConn |-> 1, eb |-> 1, coorNames |-> -1, coordKind |-> "coord", axes |-> 3,
     time |-> -1, elem |-> -1, nod |-> -1, glo |-> -1, info |-> "absent",
     coordSet |-> 1, connSet |-> 1]

ExodusParams == StructParams \cup MetaParams \cup ContentParams \cup {MinimalParams}

(***************************************************************************)
(* The candidate files of the YTData frontend: a path that ends in .h5 or  *)
(* not, naming no file, a file that is not HDF5, or an HDF5 file with its  *)
(* attributes.                                                             *)
(***************************************************************************)
RequiredAttrs ==
    <<"cosmological_simulation", "current_time", "current_redshift",
      "hubble_constant", "omega_matter", "omega_lambda",
      "domain_left_edge", "domain_right_edge">>

AttrValue(name) ==
    IF name \in {"domain_left_edge", "domain_right_edge"}
    THEN IF name = "domain_left_edge" THEN <<0, 0, 0>> ELSE <<1, 1, 1>>
    ELSE CHOOSE i \in 1..Len(RequiredAttrs) : RequiredAttrs[i] = name

H5Attrs(q) ==
    LET req == [k \in {RequiredAttrs[i] : i \in 1..Len(RequiredAttrs)} \ {q.lacks} |->
                   AttrValue(k)]
        dt == IF q.data_type = "absent" THEN EmptyDict ELSE "data_type" :> q.data_type
    IN req @@ dt

H5File(q) ==
    [kind |-> q.kind, path |-> "data" \o q.suffix, suffix |-> q.suffix, ctime |-> 77,
     variables |-> EmptyDict,
     attrs |-> IF q.kind = "hdf5" THEN H5Attrs(q) ELSE EmptyDict,
     groups |-> IF q.kind = "hdf5" THEN <<"grid", "all">> ELSE <<>>]

H5Params ==
    [kind : {"hdf5"}, suffix : {".h5", ".dat"},
     data_type : {"absent", "light_ray", "yt_array_data", "yt_data_container",
                  "yt_grid_data", "unknown"},
     lacks : {"none", "current_time", "domain_right_edge"}]
    \cup [kind : {"missing", "garbage"}, suffix : {".h5", ".dat"},
          data_type : {"absent"}, lacks : {"none"}]

Files == {ExodusFile(p) : p \in ExodusParams} \cup {H5File(q) : q \in H5Params}

(***************************************************************************)
(* The file libraries.                                                     *)
(***************************************************************************)
\* NetCDF4FileHandler(filename): whether netCDF4 opens the file.
NetCDFOpens(f) == f.kind = "netcdf"

\* h5py.File(filename, "r"): whether h5py opens the file.
H5Opens(f) == f.kind = "hdf5"

\* A netCDF4 variable object: a reference into the open file, read on [:].
NcVar(name) == [tag |-> "ncvar", name |-> name]

\* v[:] of a netCDF4 variable object: the file's contents, read through the handle.
Read(v, f) == f.variables[v.name]

(***************************************************************************)
(* The validity probes.  The result is "True", "False", "None" (the        *)
(* function ends without a return statement) or "Raised" (an exception     *)
(* reaches the caller).                                                    *)
(***************************************************************************)
Exodus_is_valid(f) ==
    IF NetCDFOpens(f) /\ "connect1" \in DOMAIN f.variables THEN "True" ELSE "None"

Container_is_valid(f) ==
    IF f.suffix # ".h5" THEN "False"
    ELSE IF ~H5Opens(f) THEN "Raised"
    ELSE IF "data_type" \in DOMAIN f.attrs
            /\ f.attrs["data_type"] \in {"light_ray", "yt_array_data", "yt_data_container"}
         THEN "True"
         ELSE "False"

Grid_is_valid(f) ==
    IF f.suffix # ".h5" THEN "False"
    ELSE IF ~H5Opens(f) THEN "Raised"
    ELSE IF "data_type" \in DOMAIN f.attrs /\ f.attrs["data_type"] \in {"yt_grid_data"}
         THEN "True"
         ELSE "False"

(***************************************************************************)
(* ExodusIIDataset: the steps of _parse_parameter_file.  A step that can   *)
(* raise yields a record whose exc names the exception, "none" otherwise.  *)
(***************************************************************************)
Ok(v) == [exc |-> "none", val |-> v]
Raise(e) == [exc |-> e, val |-> 0]

\* sanitize_string(v.tostring()): the row as a string without its padding.
RECURSIVE sanitize_string(_)
sanitize_string(row) ==
    IF row = <<>> THEN ""
    ELSE IF row[Len(row)] = Pad THEN sanitize_string(SubSeq(row, 1, Len(row) - 1))
    ELSE sanitize_string(SubSeq(row, 1, Len(row) - 1)) \o row[Len(row)]

\* load_info_records(raw): the decoder of the info records.
decode_info_records(raw) ==
    IF raw = "stamped"
    THEN Ok([tag |-> "dict",
             items |-> "Version Info" :> ("Executable Timestamp" :> 1234)])
    ELSE IF raw = "unstamped"
    THEN Ok([tag |-> "dict", items |-> "Title" :> ("Text" :> 1)])
    ELSE Raise("TypeError")

\* str.__hash__ of the file path
StrHash(s) == -(31 * Len(s) + 7)

RECURSIVE get_fluid_types_from(_, _)
get_fluid_types_from(f, i) ==
    IF NetCDFOpens(f) /\ ConnectKey(i) \in DOMAIN f.variables
    THEN <<ConnectKey(i)>> \o get_fluid_types_from(f, i + 1)
    ELSE <<>>

get_fluid_types(f) == get_fluid_types_from(f, 1)

load_variables(params, f) ==
    Update(params, [k \in DOMAIN f.variables |-> NcVar(k)])

get_glo_names(params, f) ==
    IF "name_glo_var" \in DOMAIN params
    THEN LET rows == Read(params["name_glo_var"], f)
         IN [j \in 1..Len(rows) |-> sanitize_string(rows[j])]
    ELSE <<>>

get_elem_names(params, f) ==
    IF "name_elem_var" \in DOMAIN params
    THEN LET rows == Read(params["name_elem_var"], f)
         IN [j \in 1..Len(rows) |-> sanitize_string(rows[j])]
    ELSE <<>>

get_nod_names(params, f) ==
    IF "name_nod_var" \in DOMAIN params
    THEN LET rows == Read(params["name_nod_var"], f)
         IN [j \in 1..Len(rows) |-> sanitize_string(rows[j])]
    ELSE <<>>

\* for name, value in zip(names, values): d[name] = value
RECURSIVE PutZip(_, _, _)
PutZip(d, names, values) ==
    IF names = <<>> \/ values = <<>> THEN d
    ELSE PutZip(Put(d, Head(names), Head(values)), Tail(names), Tail(values))

\* read_glo_var without its early return on an empty list of names
read_glo_var_no_guard(params, f) ==
    LET names == get_glo_names(params, f)
    IN IF "vals_glo_var" \notin DOMAIN params THEN Raise("KeyError")
       ELSE LET raw == Read(params["vals_glo_var"], f)
                values == IF Len(raw) = 0 THEN [g \in 1..Len(names) |-> <<>>]
                          ELSE Transpose(raw)
            IN Ok(PutZip(params, names, values))

read_glo_var(params, f) ==
    LET names == get_glo_names(params, f)
    IN IF names = <<>> THEN Ok(params)
       ELSE IF "vals_glo_var" \notin DOMAIN params THEN Raise("KeyError")
       ELSE LET raw == Read(params["vals_glo_var"], f)
                values == IF Len(raw) = 0 THEN [g \in 1..Len(names) |-> <<>>]
                          ELSE Transpose(raw)
            IN Ok(PutZip(params, names, values))

get_dimensionality(params, f) ==
    IF "coor_names" \in DOMAIN params
    THEN Ok(Len(Read(params["coor_names"], f)))
    ELSE Raise("KeyError")

load_info_records(params, f) ==
    IF "info_records" \in DOMAIN params
    THEN LET r == decode_info_records(Read(params["info_records"], f))
         IN IF r.exc \in {"KeyError", "TypeError"}
            THEN [tag |-> "list", items |-> <<>>]
            ELSE r.val
    ELSE [tag |-> "list", items |-> <<>>]

get_unique_identifier(params, f) ==
    LET ir == params["info_records"]
    IN IF /\ ir.tag = "dict"
          /\ "Version Info" \in DOMAIN ir.items
          /\ "Executable Timestamp" \in DOMAIN ir.items["Version Info"]
       THEN ir.items["Version Info"]["Executable Timestamp"]
       ELSE StrHash(f.path)

get_current_time(params, f) ==
    IF "time_whole" \notin DOMAIN params THEN Ok(0)
    ELSE LET tw == Read(params["time_whole"], f)
         IN IF PyPos(0, Len(tw)) = 0 THEN Raise("IndexError")
            ELSE Ok(tw[PyPos(0, Len(tw))])

get_num_meshes(params, f) ==
    IF "eb_status" \in DOMAIN params
    THEN Ok(Len(Read(params["eb_status"], f)))
    ELSE Raise("KeyError")

load_coordinates(params, dimensionality, f) ==
    IF "coord" \in DOMAIN params
    THEN Ok(Transpose(Read(params["coord"], f)))
    ELSE IF dimensionality \notin {2, 3} THEN Raise("UnboundLocalError")
    ELSE IF \E a \in 1..dimensionality : CoordKey(a) \notin DOMAIN params
         THEN Raise("KeyError")
         ELSE Ok(Transpose([a \in 1..dimensionality |-> Read(params[CoordKey(a)], f)]))

\* load_connectivity reading every connect<i> the file holds, as
\* _get_fluid_types does, instead of num_meshes of them
load_connectivity_all_blocks(params, f) ==
    Ok([i \in 1..Len(get_fluid_types(f)) |-> Read(params[ConnectKey(i)], f)])

load_connectivity(params, f) ==
    IF \E i \in 1..params["num_meshes"] : ConnectKey(i) \notin DOMAIN params
    THEN Raise("KeyError")
    ELSE Ok([i \in 1..params["num_meshes"] |-> Read(params[ConnectKey(i)], f)])

\* vals_elem_var<j>eb<i>[:].astype("f8")[-1, :]
elem_field(params, f, j, i) ==
    IF ElemVarKey(j, i) \notin DOMAIN params THEN Raise("KeyError")
    ELSE LET raw == Read(params[ElemVarKey(j, i)], f)
         IN IF PyPos(-1, Len(raw)) = 0 THEN Raise("IndexError")
            ELSE Ok(raw[PyPos(-1, Len(raw))])

\* nod_field indexing the nodes by ci instead of ci - 1
nod_field_no_offset(params, f, j, ci) ==
    IF NodVarKey(j) \notin DOMAIN params THEN Raise("KeyError")
    ELSE LET raw == Read(params[NodVarKey(j)], f)
         IN IF PyPos(-1, Len(raw)) = 0 THEN Raise("IndexError")
            ELSE LET row == raw[PyPos(-1, Len(raw))]
                 IN IF \E e \in 1..Len(ci) : \E k \in 1..Len(ci[e]) :
                           PyPos(ci[e][k], Len(row)) = 0
                    THEN Raise("IndexError")
                    ELSE Ok([e \in 1..Len(ci) |->
                               [k \in 1..Len(ci[e]) |->
                                   row[PyPos(ci[e][k], Len(row))]]])

\* vals_nod_var<j>[:].astype("f8")[-1, ci - 1, ...]
nod_field(params, f, j, ci) ==
    IF NodVarKey(j) \notin DOMAIN params THEN Raise("KeyError")
    ELSE LET raw == Read(params[NodVarKey(j)], f)
         IN IF PyPos(-1, Len(raw)) = 0 THEN Raise("IndexError")
            ELSE LET row == raw[PyPos(-1, Len(raw))]
                 IN IF \E e \in 1..Len(ci) : \E k \in 1..Len(ci[e]) :
                           PyPos(ci[e][k] - 1, Len(row)) = 0
                    THEN Raise("IndexError")
                    ELSE Ok([e \in 1..Len(ci) |->
                               [k \in 1..Len(ci[e]) |->
                                   row[PyPos(ci[e][k] - 1, Len(row))]]])

\* The fields of mesh i, in the order the loops assign them.
mesh_fields(params, f, i) ==
    LET ci == params["connectivity"][i]
        en == params["elem_names"]
        nn == params["nod_names"]
    IN [j \in 1..Len(en) |-> elem_field(params, f, j, i)]
       \o [j \in 1..Len(nn) |-> nod_field(params, f, j, ci)]

mesh_keys(params) ==
    [j \in 1..Len(params["elem_names"]) |-> <<"gas", params["elem_names"][j]>>]
    \o [j \in 1..Len(params["nod_names"]) |-> <<"gas", params["nod_names"][j]>>]

load_data(params, f) ==
    LET n == params["num_meshes"]
        fields == [i \in 1..n |-> mesh_fields(params, f, i)]
        bad == {<<i, j>> \in (1..n) \X (1..Len(mesh_keys(params))) :
                    fields[i][j].exc # "none"}
    IN IF bad # {}
       THEN LET first == CHOOSE b \in bad : \A c \in bad :
                             b[1] < c[1] \/ (b[1] = c[1] /\ b[2] <= c[2])
            IN Raise(fields[first[1]][first[2]].exc)
       ELSE Ok([i \in 1..n |->
                   PutZip(EmptyDict, mesh_keys(params),
                          [j \in 1..Len(fields[i]) |-> fields[i][j].val])])

\* load_domain_edge returning the minimum for either edge
load_domain_edge_min_only(params, domain_idx) ==
    LET coords == params["coordinates"]
        column(d) == [n \in 1..Len(coords) |-> coords[n][d]]
    IN IF Len(coords) = 0 THEN Raise("ValueError")
       ELSE Ok([d \in 1..Len(coords[1]) |-> SeqMin(column(d))])

load_domain_edge(params, domain_idx) ==
    LET coords == params["coordinates"]
        column(d) == [n \in 1..Len(coords) |-> coords[n][d]]
    IN IF Len(coords) = 0 THEN Raise("ValueError")
       ELSE IF domain_idx = 0
       THEN Ok([d \in 1..Len(coords[1]) |-> SeqMin(column(d))])
       ELSE Ok([d \in 1..Len(coords[1]) |-> SeqMax(column(d))])

(***************************************************************************)
(* The run.                                                                *)
(***************************************************************************)
Init ==
    /\ file \in Files
    /\ adapter = "none"
    /\ pc = "start"
    /\ valid = "unset"
    /\ exc = "none"
    /\ handles = {}
    /\ parameters = EmptyDict
    /\ hvals = EmptyDict
    /\ ds = EmptyDict

ProbeExodus ==
    /\ pc = "start"
    /\ adapter' = "exodus"
    /\ valid' = Exodus_is_valid(file)
    /\ pc' = "probed"
    \* the handle the probe opened is not closed by it
    /\ handles' = IF NetCDFOpens(file) THEN handles \cup {"probe"} ELSE handles
    /\ UNCHANGED <<file, exc, parameters, hvals, ds>>

ProbeContainer ==
    /\ pc = "start"
    /\ adapter' = "container"
    /\ valid' = Container_is_valid(file)
    /\ pc' = "probed"
    /\ exc' = IF Container_is_valid(file) = "Raised" THEN "IOError" ELSE exc
    /\ UNCHANGED <<file, handles, parameters, hvals, ds>>

ProbeGrid ==
    /\ pc = "start"
    /\ adapter' = "grid"
    /\ valid' = Grid_is_valid(file)
    /\ pc' = "probed"
    /\ exc' = IF Grid_is_valid(file) = "Raised" THEN "IOError" ELSE exc
    /\ UNCHANGED <<file, handles, parameters, hvals, ds>>

\* A statement of _parse_parameter_file whose right-hand side is r: go on at
\* next with the assignment made, or leave with the exception.
Step(r, next) ==
    /\ pc' = IF r.exc = "none" THEN next ELSE "failed"
    /\ exc' = r.exc

\* ExodusIIDataset.__init__ up to the call of _parse_parameter_file; fluid_types
\* holds the connect<i> types that are added to the inherited ones.
ExodusInit ==
    /\ pc = "probed" /\ adapter = "exodus" /\ valid = "True"
    /\ ds' = Put(Put(ds, "parameter_filename", file.path),
                 "fluid_types", get_fluid_types(file))
    /\ handles' = handles \cup {"fluid_types"}
    /\ pc' = "load_variables"
    /\ UNCHANGED <<file, adapter, valid, exc, parameters, hvals>>

Exodus_load_variables ==
    /\ pc = "load_variables"
    /\ handles' = handles \cup {"load_variables"}
    /\ parameters' = load_variables(parameters, file)
    /\ pc' = "read_glo_var"
    /\ UNCHANGED <<file, adapter, valid, exc, hvals, ds>>

Exodus_read_glo_var ==
    /\ pc = "read_glo_var"
    /\ LET r == read_glo_var(parameters, file)
       IN /\ Step(r, "dimensionality")
          /\ parameters' = IF r.exc = "none" THEN r.val ELSE parameters
    /\ UNCHANGED <<file, adapter, valid, handles, hvals, ds>>

Exodus_dimensionality ==
    /\ pc = "dimensionality"
    /\ LET r == get_dimensionality(parameters, file)
       IN /\ Step(r, "info_records")
          /\ ds' = IF r.exc = "none" THEN Put(ds, "dimensionality", r.val) ELSE ds
    /\ UNCHANGED <<file, adapter, valid, handles, parameters, hvals>>

Exodus_info_records ==
    /\ pc = "info_records"
    /\ parameters' = Put(parameters, "info_records", load_info_records(parameters, file))
    /\ pc' = "unique_identifier"
    /\ UNCHANGED <<file, adapter, valid, exc, handles, hvals, ds>>

Exodus_unique_identifier ==
    /\ pc = "unique_identifier"
    /\ ds' = Put(ds, "unique_identifier", get_unique_identifier(parameters, file))
    /\ pc' = "current_time"
    /\ UNCHANGED <<file, adapter, valid, exc, handles, parameters, hvals>>

Exodus_current_time ==
    /\ pc = "current_time"
    /\ LET r == get_current_time(parameters, file)
       IN /\ Step(r, "num_meshes")
          /\ ds' = IF r.exc = "none" THEN Put(ds, "current_time", r.val) ELSE ds
    /\ UNCHANGED <<file, adapter, valid, handles, parameters, hvals>>

Exodus_num_meshes ==
    /\ pc = "num_meshes"
    /\ LET r == get_num_meshes(parameters, file)
       IN /\ Step(r, "elem_names")
          /\ parameters' = IF r.exc = "none" THEN Put(parameters, "num_meshes", r.val)
                           ELSE parameters
    /\ UNCHANGED <<file, adapter, valid, handles, hvals, ds>>

Exodus_elem_names ==
    /\ pc = "elem_names"
    /\ parameters' = Put(parameters, "elem_names", get_elem_names(parameters, file))
    /\ pc' = "nod_names"
    /\ UNCHANGED <<file, adapter, valid, exc, handles, hvals, ds>>

Exodus_nod_names ==
    /\ pc = "nod_names"
    /\ parameters' = Put(parameters, "nod_names", get_nod_names(parameters, file))
    /\ pc' = "coordinates"
    /\ UNCHANGED <<file, adapter, valid, exc, handles, hvals, ds>>

Exodus_coordinates ==
    /\ pc = "coordinates"
    /\ LET r == load_coordinates(parameters, ds["dimensionality"], file)
       IN /\ Step(r, "connectivity")
          /\ parameters' = IF r.exc = "none" THEN Put(parameters, "coordinates", r.val)
                           ELSE parameters
    /\ UNCHANGED <<file, adapter, valid, handles, hvals, ds>>

Exodus_connectivity ==
    /\ pc = "connectivity"
    /\ LET r == load_connectivity(parameters, file)
       IN /\ Step(r, "data")
          /\ parameters' = IF r.exc = "none" THEN Put(parameters, "connectivity", r.val)
                           ELSE parameters
    /\ UNCHANGED <<file, adapter, valid, handles, hvals, ds>>

Exodus_data ==
    /\ pc = "data"
    /\ LET r == load_data(parameters, file)
       IN /\ Step(r, "domain_left_edge")
          /\ ds' = IF r.exc = "none" THEN Put(ds, "data", r.val) ELSE ds
    /\ UNCHANGED <<file, adapter, valid, handles, parameters, hvals>>

Exodus_domain_left_edge ==
    /\ pc = "domain_left_edge"
    /\ LET r == load_domain_edge(parameters, 0)
       IN /\ Step(r, "domain_right_edge")
          /\ ds' = IF r.exc = "none" THEN Put(ds, "domain_left_edge", r.val) ELSE ds
    /\ UNCHANGED <<file, adapter, valid, handles, parameters, hvals>>

Exodus_domain_right_edge ==
    /\ pc = "domain_right_edge"
    /\ LET r == load_domain_edge(parameters, 1)
       IN /\ Step(r, "num_steps")
          /\ ds' = IF r.exc = "none" THEN Put(ds, "domain_right_edge", r.val) ELSE ds
    /\ UNCHANGED <<file, adapter, valid, handles, parameters, hvals>>

\* The constant attributes, then num_steps = len(self.parameters['time_whole'])
ExodusConstants ==
    [periodicity |-> <<FALSE, FALSE, FALSE>>, domain_dimensions |-> <<1, 1, 1>>,
     cosmological_simulation |-> 0, current_redshift |-> 0, omega_lambda |-> 0,
     omega_matter |-> 0, hubble_constant |-> 0, refine_by |-> 0]

get_num_steps(params, f) ==
    IF "time_whole" \in DOMAIN params
    THEN Ok(Len(Read(params["time_whole"], f)))
    ELSE Raise("KeyError")

Exodus_num_steps ==
    /\ pc = "num_steps"
    /\ LET r == get_num_steps(parameters, file)
       IN /\ Step(r, "done")
          /\ ds' = IF r.exc = "none"
                   THEN Put(Update(ds, ExodusConstants), "num_steps", r.val)
                   ELSE Update(ds, ExodusConstants)
    /\ UNCHANGED <<file, adapter, valid, handles, parameters, hvals>>

ExodusParse ==
    \/ Exodus_load_variables
    \/ Exodus_read_glo_var
    \/ Exodus_dimensionality
    \/ Exodus_info_records
    \/ Exodus_unique_identifier
    \/ Exodus_current_time
    \/ Exodus_num_meshes
    \/ Exodus_elem_names
    \/ Exodus_nod_names
    \/ Exodus_coordinates
    \/ Exodus_connectivity
    \/ Exodus_data
    \/ Exodus_domain_left_edge
    \/ Exodus_domain_right_edge
    \/ Exodus_num_steps

(***************************************************************************)
(* YTDataContainerDataset and YTGridDataset.                               *)
(***************************************************************************)
\* YTDataContainerDataset.__init__ up to the call of _parse_parameter_file
ContainerInit ==
    /\ pc = "probed" /\ adapter = "container" /\ valid = "True"
    /\ ds' = Put(Put(Put(ds, "n_ref", 16), "over_refine_factor", 1),
                 "parameter_filename", file.path)
    /\ pc' = "container_open"
    /\ UNCHANGED <<file, adapter, valid, exc, handles, parameters, hvals>>

\* with h5py.File(self.parameter_filename, "r") as f:
Container_open ==
    /\ pc = "container_open"
    /\ handles' = IF H5Opens(file) THEN handles \cup {"h5_parse"} ELSE handles
    /\ pc' = IF H5Opens(file) THEN "container_drain" ELSE "failed"
    /\ exc' = IF H5Opens(file) THEN exc ELSE "IOError"
    /\ UNCHANGED <<file, adapter, valid, parameters, hvals, ds>>

\* The body of the with statement, and the release of the handle at its end.
Container_drain ==
    /\ pc = "container_drain"
    /\ hvals' = [k \in DOMAIN file.attrs |-> file.attrs[k]]
    /\ ds' = Put(ds, "particle_types_raw", file.groups)
    /\ handles' = handles \ {"h5_parse"}
    /\ pc' = "container_derive"
    /\ UNCHANGED <<file, adapter, valid, exc, parameters>>

\* for attr in [...]: setattr(self, attr, hvals[attr])
RECURSIVE SetAttrs(_, _, _)
SetAttrs(d, hv, attrs) ==
    IF attrs = <<>> THEN [exc |-> "none", val |-> d]
    ELSE IF Head(attrs) \notin DOMAIN hv THEN [exc |-> "KeyError", val |-> d]
    ELSE SetAttrs(Put(d, Head(attrs), hv[Head(attrs)]), hv, Tail(attrs))

\* 1 << n
RECURSIVE ShiftOne(_)
ShiftOne(n) == IF n = 0 THEN 1 ELSE 2 * ShiftOne(n - 1)

container_before_loop(d, f) ==
    Update(d, [particle_types |-> d["particle_types_raw"], dimensionality |-> 3,
               refine_by |-> 2, unique_identifier |-> f.ctime,
               filename_template |-> d["parameter_filename"], file_count |-> 1])

container_after_loop(d) ==
    LET nz == ShiftOne(d["over_refine_factor"])
    IN Update(d, [periodicity |-> <<TRUE, TRUE, TRUE>>,
                  domain_dimensions |-> <<nz, nz, nz>>])

Container_derive ==
    /\ pc = "container_derive"
    /\ LET r == SetAttrs(container_before_loop(ds, file), hvals, RequiredAttrs)
       IN /\ Step(r, "done")
          /\ ds' = IF r.exc = "none" THEN container_after_loop(r.val) ELSE r.val
          /\ parameters' = IF r.exc = "none" THEN Update(parameters, hvals)
                           ELSE parameters
    /\ UNCHANGED <<file, adapter, valid, handles, hvals>>

\* YTGridDataset.__init__ up to the call of _parse_parameter_file
GridInit ==
    /\ pc = "probed" /\ adapter = "grid" /\ valid = "True"
    /\ ds' = Put(ds, "parameter_filename", file.path)
    /\ pc' = "grid_open"
    /\ UNCHANGED <<file, adapter, valid, exc, handles, parameters, hvals>>

Grid_open ==
    /\ pc = "grid_open"
    /\ handles' = IF H5Opens(file) THEN handles \cup {"h5_parse"} ELSE handles
    /\ pc' = IF H5Opens(file) THEN "grid_drain" ELSE "failed"
    /\ exc' = IF H5Opens(file) THEN exc ELSE "IOError"
    /\ UNCHANGED <<file, adapter, valid, parameters, hvals, ds>>

\* for attr, value in f.attrs.items(): setattr(self, attr, value)
Grid_drain ==
    /\ pc = "grid_drain"
    /\ ds' = Update(ds, file.attrs)
    /\ handles' = handles \ {"h5_parse"}
    /\ pc' = "done"
    /\ UNCHANGED <<file, adapter, valid, exc, parameters, hvals>>

H5Parse ==
    \/ ContainerInit
    \/ Container_open
    \/ Container_drain
    \/ Container_derive
    \/ GridInit
    \/ Grid_open
    \/ Grid_drain

Next ==
    \/ ProbeExodus
    \/ ProbeContainer
    \/ ProbeGrid
    \/ ExodusInit
    \/ ExodusParse
    \/ H5Parse

Spec == Init /\ [][Next]_vars

(***************************************************************************)
(* The claims.                                                             *)
(***************************************************************************)
ExodusRun == adapter = "exodus"

\* C1: ExodusIIDataset._is_valid returns a boolean for every path: True when
\* the file opens and holds connect1, False otherwise.
C1_ProbeReturnsBoolean ==
    (ExodusRun /\ pc # "start") =>
        /\ valid \in {"True", "False"}
        /\ valid = "True" <=> (NetCDFOpens(file) /\ "connect1" \in DOMAIN file.variables)

\* C2: the probes of the container format return False for a path ending in
\* .h5 whose file is missing or is not HDF5; no error reaches the caller.
C2_ProbeNeverPropagates ==
    (adapter \in {"container", "grid"} /\ pc # "start"
        /\ file.suffix = ".h5" /\ ~H5Opens(file)) =>
        (valid = "False" /\ exc = "none")

\* The metadata loader has returned.
LoaderReturned ==
    \/ ExodusRun /\ pc \notin {"start", "probed", "load_variables"}
    \/ adapter = "container" /\ pc \in {"container_derive", "done", "failed"}
    \/ adapter = "grid" /\ pc \in {"done", "failed"}

\* C3: once the metadata loader has returned, the handle it opened is released
\* and no parameter is still a reference into the file.
C3_HandleReleasedAfterLoad ==
    LoaderReturned =>
        /\ handles \cap {"load_variables", "h5_parse"} = {}
        /\ \A k \in (DOMAIN file.variables \cap DOMAIN parameters) \ {"info_records"} :
              parameters[k] # NcVar(k)

MeshCountsAgree ==
    /\ Len(parameters["connectivity"]) = parameters["num_meshes"]
    /\ parameters["num_meshes"] = Len(Read(parameters["eb_status"], file))
    /\ Len(ds["data"]) = parameters["num_meshes"]

C6_DimensionalityTwoOrThree ==
    (ExodusRun /\ valid = "True" /\ pc = "done") =>
        /\ ds["dimensionality"] \in {2, 3}
        /\ \A n \in 1..Len(parameters["coordinates"]) :
              Len(parameters["coordinates"][n]) = ds["dimensionality"]

TimeWholeUnusable ==
    \/ "time_whole" \notin DOMAIN file.variables
    \/ file.variables["time_whole"] = <<>>

NoTimestamp ==
    \/ "info_records" \notin DOMAIN file.variables
    \/ file.variables["info_records"] # "stamped"

\* C7: the fallbacks of the unique identifier and of the current time never
\* raise: without a usable time_whole current_time is 0.0, without an
\* executable timestamp the identifier is the hash of the path, and the parse
\* does not fail because of the missing value.
C7_FallbacksNeverFail ==
    [][/\ (ExodusRun /\ pc = "unique_identifier") =>
              /\ pc' = "current_time"
              /\ NoTimestamp => ds'["unique_identifier"] = StrHash(file.path)
       /\ (ExodusRun /\ pc = "current_time" /\ TimeWholeUnusable) =>
              /\ pc' = "num_meshes"
              /\ ds'["current_time"] = 0
       /\ (ExodusRun /\ pc = "num_steps" /\ TimeWholeUnusable) =>
              pc' # "failed"]_vars

\* C8: for each of name_elem_var, name_nod_var and name_glo_var on its own:
\* when the variable is absent the decoded list is empty, nothing is raised
\* and the parse goes on to its next statement; without name_glo_var,
\* _read_glo_var leaves the parameters as they are.
C8_AbsentNamesAreEmpty ==
    [][/\ (pc = "read_glo_var" /\ "name_glo_var" \notin DOMAIN file.variables) =>
              /\ pc' = "dimensionality" /\ exc' = "none"
              /\ get_glo_names(parameters, file) = <<>>
              /\ DOMAIN parameters' = DOMAIN parameters
              /\ \A k \in DOMAIN parameters : parameters'[k] = parameters[k]
       /\ (pc = "elem_names" /\ "name_elem_var" \notin DOMAIN file.variables) =>
              /\ pc' = "nod_names" /\ exc' = "none"
              /\ parameters'["elem_names"] = <<>>
       /\ (pc = "nod_names" /\ "name_nod_var" \notin DOMAIN file.variables) =>
              /\ pc' = "coordinates" /\ exc' = "none"
              /\ parameters'["nod_names"] = <<>>]_vars

C8_Witness ==
    /\ ExodusRun /\ pc = "coordinates"
    /\ "name_glo_var" \notin DOMAIN file.variables
    /\ "name_elem_var" \notin DOMAIN file.variables
    /\ "name_nod_var" \in DOMAIN file.variables
    /\ parameters["elem_names"] = <<>>
    /\ parameters["nod_names"] # <<>>

\* C9: the minimal mesh file (coord, connect1, an eb_status of length 1 and no
\* name variables) loads, with num_meshes = 1, elem_names = [], nod_names = []
\* and data = [{}].
C9_MinimalMeshLoads ==
    (ExodusRun /\ file = ExodusFile(MinimalParams)) =>
        /\ pc # "failed"
        /\ pc = "done" =>
              /\ parameters["num_meshes"] = 1
              /\ parameters["elem_names"] = <<>>
              /\ parameters["nod_names"] = <<>>
              /\ ds["data"] = <<EmptyDict>>

\* C10: on every axis d the left edge is the least and the right edge the
\* greatest entry of column d of the coordinates, with nothing added, so the
\* left edge is at most the right edge.
C10_DomainEdgesAreColumnExtremes ==
    (ExodusRun /\ "domain_right_edge" \in DOMAIN ds) =>
        LET coords == parameters["coordinates"]
            left == ds["domain_left_edge"]
            right == ds["domain_right_edge"]
        IN /\ Len(left) = Len(coords[1])
           /\ Len(right) = Len(coords[1])
           /\ \A d \in 1..Len(coords[1]) :
                 /\ \E n \in 1..Len(coords) : coords[n][d] = left[d]
                 /\ \E n \in 1..Len(coords) : coords[n][d] = right[d]
                 /\ \A n \in 1..Len(coords) : left[d] <= coords[n][d] /\ coords[n][d] <= right[d]
                 /\ left[d] <= right[d]

C10_Witness ==
    /\ ExodusRun /\ pc = "done"
    /\ \E d \in 1..Len(ds["domain_left_edge"]) :
          ds["domain_left_edge"][d] < ds["domain_right_edge"][d]
    /\ \E d \in 1..Len(ds["domain_left_edge"]) :
          ds["domain_left_edge"][d] < 0
====
